---- MODULE Spec2Model ----
(***************************************************************************)
(* Bingo card generation of church_bingo: the feasibility validator and    *)
(* the board generator of services/board_generator.py, and the session     *)
(* workflow of app.py that calls them.                                     *)
(*                                                                         *)
(* Words are modelled as the integers 1, 2, ...; a word list is a sequence *)
(* of them.  The "FREE" cell is the value 0, which is no word.             *)
(***************************************************************************)
EXTENDS Integers, Sequences, FiniteSets, TLC

VARIABLES
    words,          \* argument: the word pool (a sequence of words)
    board_size,     \* argument: the grid dimension
    card_count,     \* argument: the number of cards requested
    word_mode,      \* argument: "same_shuffled" or "different_per_board"
    custom_words,   \* argument: the pinned words
    valid,          \* validate_word_count's first result
    msg,            \* validate_word_count's second result
    boards,         \* generate_boards: the cards built so far
    seen,           \* generate_boards: the keys of the accepted cards
    attempts,       \* generate_boards: failed attempts for the current card
    card_words,     \* generate_boards: the last candidate drawn
    pc,             \* position of the call
    data,           \* app.py: the session's data
    call,           \* app.py: the arguments of the last generate_boards call
    response        \* app.py: what the last request answered

vars == <<words, board_size, card_count, word_mode, custom_words, valid, msg,
          boards, seen, attempts, card_words, pc, data, call, response>>

argVars  == <<words, board_size, card_count, word_mode, custom_words>>
valVars  == <<valid, msg>>
genVars  == <<boards, seen, attempts, card_words>>
flowVars == <<data, call, response>>

----------------------------------------------------------------------------
(* Bounds of the model *)

MaxCards == 2       \* card_count ranges over 1..MaxCards in generator calls
MaxRot == 1         \* random.shuffle: the rotations tried
MaxPinned == 1      \* custom_words: the number of pinned pool words
MaxPoolLen == 30    \* validator: pool lengths 0..MaxPoolLen
MaxCount == 10      \* validator: card_count ranges over 1..MaxCount

(* Program constants *)

FREE == 0
MAX_ATTEMPTS == 100
FACTORIAL_STOP == 13

Modes == {"same_shuffled", "different_per_board"}

----------------------------------------------------------------------------
(* Helpers *)

Min(a, b) == IF a < b THEN a ELSE b
Max(a, b) == IF a > b THEN a ELSE b

Range(s) == {s[i] : i \in DOMAIN s}

\* the pool <<1, ..., n>> of n distinct words
Pool(n) == [i \in 1..n |-> i]

\* list comprehension [w for w in s if w in keep]
RECURSIVE Filter(_, _)
Filter(s, keep) ==
    IF s = <<>> THEN <<>>
    ELSE IF Head(s) \in keep THEN <<Head(s)>> \o Filter(Tail(s), keep)
         ELSE Filter(Tail(s), keep)

----------------------------------------------------------------------------
(* services/board_generator.py *)

cells(size) == size * size - (IF size = 5 THEN 1 ELSE 0)

cells_needed(size) == size * size - (IF size = 5 THEN 1 ELSE 0)

\* mutant: the first threshold compared with <= instead of <
validate_word_count_le(ws, size, count, mode) ==
    IF Len(ws) <= cells(size)
    THEN [ok |-> FALSE,
          msg |-> [text |-> "Need at least {cells} words for a {n}x{n} board, but only have {len}.",
                   cells |-> cells(size), rows |-> size, cols |-> size,
                   have |-> Len(ws)]]
    ELSE [ok |-> TRUE, msg |-> [text |-> "OK"]]

\* mutant: the first threshold one word too low
validate_word_count_short(ws, size, count, mode) ==
    IF Len(ws) < cells(size) - 1
    THEN [ok |-> FALSE,
          msg |-> [text |-> "Need at least {cells} words for a {n}x{n} board, but only have {len}.",
                   cells |-> cells(size), rows |-> size, cols |-> size,
                   have |-> Len(ws)]]
    ELSE [ok |-> TRUE, msg |-> [text |-> "OK"]]

\* mutant: the recommendation without the cap at twice the cells
validate_word_count_uncapped(ws, size, count, mode) ==
    IF Len(ws) < cells(size)
    THEN [ok |-> FALSE,
          msg |-> [text |-> "Need at least {cells} words for a {n}x{n} board, but only have {len}.",
                   cells |-> cells(size), rows |-> size, cols |-> size,
                   have |-> Len(ws)]]
    ELSE IF mode = "different_per_board" /\ Len(ws) < cells(size) + 5
    THEN [ok |-> FALSE,
          msg |-> [text |-> "For boards with different words, recommend at least {recommended} words. You have {len}. Add more words or switch to 'Same words' mode.",
                   recommended |-> cells(size) + count * 3,
                   have |-> Len(ws)]]
    ELSE [ok |-> TRUE, msg |-> [text |-> "OK"]]

\* mutant: the advisory shortfall reported with ok=True
validate_word_count_advisory_ok(ws, size, count, mode) ==
    IF Len(ws) < cells(size)
    THEN [ok |-> FALSE,
          msg |-> [text |-> "Need at least {cells} words for a {n}x{n} board, but only have {len}.",
                   cells |-> cells(size), rows |-> size, cols |-> size,
                   have |-> Len(ws)]]
    ELSE IF mode = "different_per_board" /\ Len(ws) < cells(size) + 5
    THEN [ok |-> TRUE,
          msg |-> [text |-> "For boards with different words, recommend at least {recommended} words. You have {len}. Add more words or switch to 'Same words' mode.",
                   recommended |-> Min(cells(size) * 2, cells(size) + count * 3),
                   have |-> Len(ws)]]
    ELSE [ok |-> TRUE, msg |-> [text |-> "OK"]]

validate_word_count(ws, size, count, mode) ==
    IF Len(ws) < cells(size)
    THEN [ok |-> FALSE,
          msg |-> [text |-> "Need at least {cells} words for a {n}x{n} board, but only have {len}.",
                   cells |-> cells(size), rows |-> size, cols |-> size,
                   have |-> Len(ws)]]
    ELSE IF mode = "different_per_board" /\ Len(ws) < cells(size) + 5
    THEN [ok |-> FALSE,
          msg |-> [text |-> "For boards with different words, recommend at least {recommended} words. You have {len}. Add more words or switch to 'Same words' mode.",
                   recommended |-> Min(cells(size) * 2, cells(size) + count * 3),
                   have |-> Len(ws)]]
    ELSE [ok |-> TRUE, msg |-> [text |-> "OK"]]

RECURSIVE Product(_, _)
Product(lo, hi) == IF lo >= hi THEN 1 ELSE lo * Product(lo + 1, hi)

\* result = 1; for i in range(1, min(n + 1, 13)): result *= i
_factorial_limit(n) == Product(1, Min(n + 1, FACTORIAL_STOP))

\* mutant: the custom words are dropped
guaranteed_none == <<>>

\* guaranteed = [w for w in (custom_words or []) if w in words]
guaranteed == Filter(custom_words, Range(words))

\* mutant: the guaranteed words are left in the pool the filler is drawn from
remaining_pool_all == words

\* remaining_pool = [w for w in words if w not in guaranteed]
remaining_pool == Filter(words, Range(words) \ Range(guaranteed))

fill_needed == cells_needed(board_size) - Len(guaranteed)

\* mutant: the sample size clamped into 0..len(remaining_pool) in both modes
sample_size_clamped == Max(0, Min(fill_needed, Len(remaining_pool)))

\* the second argument of random.sample
sample_size ==
    IF word_mode = "same_shuffled" THEN fill_needed
    ELSE Min(fill_needed, Len(remaining_pool))

\* random.sample(population, k) raises ValueError unless 0 <= k <= len(population)
sample_raises(population, k) == k < 0 \/ k > Len(population)

\* random.sample(population, k): k distinct positions of the population.  Of
\* the possible selections the model tries two: the first k and the last k
\* elements of the population.
sample(population, k) ==
    {SubSeq(population, 1, k),
     SubSeq(population, Len(population) - k + 1, Len(population))}

Rotate(s, r) == [i \in 1..Len(s) |-> s[((i - 1 + r) % Len(s)) + 1]]

\* random.shuffle(x): a permutation of x.  Of the permutations the model
\* tries the rotations by 0..MaxRot places.
shuffle(s) ==
    IF s = <<>> THEN {<<>>}
    ELSE {Rotate(s, r) : r \in 0..Min(MaxRot, Len(s) - 1)}

\* the elements of a set of words in ascending order
RECURSIVE SortedSeq(_)
SortedSeq(S) ==
    IF S = {} THEN <<>>
    ELSE LET m == CHOOSE x \in S : \A y \in S : x <= y
         IN  <<m>> \o SortedSeq(S \ {m})

\* mutant: the key taken as the sorted tuple of the card's words
board_key_sorted(cw) == SortedSeq(Range(cw))

\* board_key = tuple(card_words), taken after the shuffle
board_key(cw) == cw

\* the index into words_for_card that _build_grid reads for (row, col),
\* rows and columns counted from 1
grid_idx(size, row, col) ==
    (row - 1) * size + col
        - (IF size = 5 /\ (row > 3 \/ (row = 3 /\ col > 3)) THEN 1 ELSE 0)

\* mutant: the centre taken as row 2, column 2 counted from 1
is_free_cell_off_by_one(size, row, col) == size = 5 /\ row = 2 /\ col = 2

is_free_cell(size, row, col) == size = 5 /\ row = 3 /\ col = 3

\* _build_grid raises IndexError when it reads past the end of words_for_card
build_grid_raises(words_for_card, size) ==
    Len(words_for_card) < cells_needed(size)

_build_grid(words_for_card, size) ==
    [row \in 1..size |->
        [col \in 1..size |->
            IF is_free_cell(size, row, col) THEN FREE
            ELSE words_for_card[grid_idx(size, row, col)]]]

\* mutant: the duplicate check is never skipped
skip_never == FALSE

\* mutant: the duplicate check is always skipped
skip_always == TRUE

\* the loop condition's second disjunct
skip_duplicate_check == card_count > _factorial_limit(cells_needed(board_size))

----------------------------------------------------------------------------
(* validate_word_count applied to a request *)

ValidatorRequests ==
    {[words |-> Pool(n), board_size |-> s, card_count |-> c, word_mode |-> m] :
        n \in 0..MaxPoolLen, s \in {4, 5}, c \in 1..MaxCount, m \in Modes}

InitIdleGen ==
    /\ boards = <<>>
    /\ seen = {}
    /\ attempts = 0
    /\ card_words = <<>>

InitIdleFlow ==
    /\ data = [keys |-> {}, selected_words |-> <<>>, custom_words |-> <<>>,
               board_size |-> 0, card_count |-> 0, word_mode |-> ""]
    /\ call = [made |-> FALSE]
    /\ response = "none"

InitVal ==
    /\ \E r \in ValidatorRequests :
        /\ words = r.words
        /\ board_size = r.board_size
        /\ card_count = r.card_count
        /\ word_mode = r.word_mode
    /\ custom_words = <<>>
    /\ valid = FALSE
    /\ msg = [text |-> ""]
    /\ pc = "validate"
    /\ InitIdleGen
    /\ InitIdleFlow

Validate ==
    /\ pc = "validate"
    /\ LET r == validate_word_count(words, board_size, card_count, word_mode)
       IN  /\ valid' = r.ok
           /\ msg' = r.msg
    /\ pc' = "validated"
    /\ UNCHANGED <<argVars, genVars, flowVars>>

NextVal == Validate

SpecVal == InitVal /\ [][NextVal]_vars

----------------------------------------------------------------------------
(* generate_boards applied to a request, one action per pass of its loop *)

\* the grid dimensions generate_boards is called with: 4 and 5 are the
\* workflow's; 1 and 2 are direct calls with grids small enough for
\* card_count to exceed _factorial_limit
BoardSizes == {1, 2, 4, 5}

\* pinned words: p words taken alternately from the end and the start of the
\* pool <<1, ..., n>>
Pin(n, p) ==
    [i \in 1..p |-> IF i % 2 = 1 THEN n - (i \div 2) ELSE i \div 2]

\* the custom_words tried with a pool of n words: up to MaxPinned pinned pool
\* words, one list with a word that is not in the pool, and one list of more
\* pool words than the grid has cells
CustomChoices(n, size) ==
    {Pin(n, p) : p \in 0..Min(MaxPinned, n)}
        \cup {<<n + 1>> \o Pin(n, Min(1, n))}
        \cup (IF n > cells_needed(size)
              THEN {Pin(n, cells_needed(size) + 1)} ELSE {})

\* pool lengths at the validator's two thresholds, and one word short
PoolLens(size) ==
    {n \in {cells_needed(size) - 1, cells_needed(size),
            cells_needed(size) + 5} : n >= 0}

GeneratorRequests ==
    UNION {UNION {
        {[words |-> Pool(n), board_size |-> s, card_count |-> c,
          word_mode |-> m, custom_words |-> cw] :
            c \in 1..MaxCards, m \in Modes, cw \in CustomChoices(n, s)} :
        n \in PoolLens(s)} : s \in BoardSizes}

InitGen ==
    /\ \E r \in GeneratorRequests :
        /\ words = r.words
        /\ board_size = r.board_size
        /\ card_count = r.card_count
        /\ word_mode = r.word_mode
        /\ custom_words = r.custom_words
    /\ valid = FALSE
    /\ msg = [text |-> ""]
    /\ pc = "loop"
    /\ InitIdleGen
    /\ InitIdleFlow

\* mutant: the for loop ends one card early
after_append_early(bs) == IF Len(bs) >= card_count - 1 THEN "done" ELSE "loop"

\* what follows the append of a card: the next pass of the for loop, or return
after_append(bs) == IF Len(bs) = card_count THEN "done" ELSE "loop"

\* lines 51-52 after the while loop ended with candidate cw
BuildAndAppend(cw) ==
    IF build_grid_raises(cw, board_size)
    THEN /\ pc' = "error"
         /\ UNCHANGED <<boards, attempts>>
    ELSE /\ boards' = Append(boards, _build_grid(cw, board_size))
         /\ attempts' = 0
         /\ pc' = after_append(boards')

\* random.sample raises ValueError: the call ends with no batch
SampleError ==
    /\ pc = "loop"
    /\ sample_raises(remaining_pool, sample_size)
    /\ pc' = "error"
    /\ UNCHANGED <<argVars, valVars, genVars, flowVars>>

\* mutant: the while loop without its bound (`while True`)
Draw_unbounded ==
    /\ pc = "loop"
    /\ ~sample_raises(remaining_pool, sample_size)
    /\ \E filler \in sample(remaining_pool, sample_size) :
       \E cw \in shuffle(guaranteed \o filler) :
        /\ card_words' = cw
        /\ IF board_key(cw) \notin seen \/ skip_duplicate_check
           THEN /\ seen' = seen \cup {board_key(cw)}
                /\ BuildAndAppend(cw)
           ELSE /\ seen' = seen
                /\ attempts' = attempts + 1
                /\ UNCHANGED <<boards, pc>>
    /\ UNCHANGED <<argVars, valVars, flowVars>>

\* one pass of the while loop: sample, shuffle, test the key
Draw ==
    /\ pc = "loop"
    /\ attempts < MAX_ATTEMPTS
    /\ ~sample_raises(remaining_pool, sample_size)
    /\ \E filler \in sample(remaining_pool, sample_size) :
       \E cw \in shuffle(guaranteed \o filler) :
        /\ card_words' = cw
        /\ IF board_key(cw) \notin seen \/ skip_duplicate_check
           THEN /\ seen' = seen \cup {board_key(cw)}
                /\ BuildAndAppend(cw)
           ELSE /\ seen' = seen
                /\ IF attempts + 1 < MAX_ATTEMPTS
                   THEN /\ attempts' = attempts + 1
                        /\ UNCHANGED <<boards, pc>>
                   ELSE BuildAndAppend(cw)
    /\ UNCHANGED <<argVars, valVars, flowVars>>

NextGen == SampleError \/ Draw

SpecGen == InitGen /\ [][NextGen]_vars

----------------------------------------------------------------------------
(* generate_boards for one card, the shuffle placing a word in any cell *)

\* mutant: the shuffle that leaves the list as it is
shuffle_identity(s) == {s}

\* random.shuffle(x): a permutation of x.  Here the model tries every
\* rotation of the list, so that each word can come to each index.
shuffle_rotations(s) ==
    IF s = <<>> THEN {<<>>}
    ELSE {Rotate(s, r) : r \in 0..(Len(s) - 1)}

\* requests for one card of size 4 or 5: pools at the validator's
\* thresholds and one word short, with 1..MaxPinned pinned pool words
PlaceRequests ==
    UNION {UNION {
        {[words |-> Pool(n), board_size |-> s, card_count |-> 1,
          word_mode |-> m, custom_words |-> Pin(n, p)] :
            m \in Modes, p \in 1..MaxPinned} :
        n \in PoolLens(s)} : s \in {4, 5}}

InitPlace ==
    /\ \E r \in PlaceRequests :
        /\ words = r.words
        /\ board_size = r.board_size
        /\ card_count = r.card_count
        /\ word_mode = r.word_mode
        /\ custom_words = r.custom_words
    /\ valid = FALSE
    /\ msg = [text |-> ""]
    /\ pc = "loop"
    /\ InitIdleGen
    /\ InitIdleFlow

\* one pass of the while loop: sample, shuffle, key, membership test, and
\* when the loop ends, the grid layout and the append
DrawAnyRotation ==
    /\ pc = "loop"
    /\ attempts < MAX_ATTEMPTS
    /\ ~sample_raises(remaining_pool, sample_size)
    /\ \E filler \in sample(remaining_pool, sample_size) :
       \E cw \in shuffle_rotations(guaranteed \o filler) :
        /\ card_words' = cw
        /\ IF board_key(cw) \notin seen \/ skip_duplicate_check
           THEN /\ seen' = seen \cup {board_key(cw)}
                /\ BuildAndAppend(cw)
           ELSE /\ seen' = seen
                /\ IF attempts + 1 < MAX_ATTEMPTS
                   THEN /\ attempts' = attempts + 1
                        /\ UNCHANGED <<boards, pc>>
                   ELSE BuildAndAppend(cw)
    /\ UNCHANGED <<argVars, valVars, flowVars>>

NextPlace == SampleError \/ DrawAnyRotation

SpecPlace == InitPlace /\ [][NextPlace]_vars

----------------------------------------------------------------------------
(* app.py: the workflow's requests on one session *)

\* whether generate_boards(ws, size, count, mode, custom) ends in an
\* exception (ValueError of random.sample, IndexError of _build_grid) on its
\* first card instead of returning a batch
generate_boards_raises(ws, size, count, mode, custom) ==
    LET g    == Filter(custom, Range(ws))
        rest == Filter(ws, Range(ws) \ Range(g))
        fill == cells_needed(size) - Len(g)
    IN  count >= 1 /\ (fill < 0 \/ fill > Len(rest))

\* lengths of the word lists a request supplies
FlowLens == {15, 16, 24, 29}

\* the custom_words a words POST supplies with n selected words: none, one
\* word, every selected word
FlowCustom(n) == {<<>>, <<n>>, Pool(n)}

\* board_size = 5 if board_size not in (4, 5) else board_size
clamp_board_size(n) == IF n \notin {4, 5} THEN 5 ELSE n

\* mutant: the clamp without its upper end
clamp_card_count_no_max(n) == Max(1, n)

\* card_count = max(1, min(50, card_count))
clamp_card_count(n) == Max(1, Min(50, n))

\* data.get(key, default)
Get(key, default) == IF key \in data.keys THEN data[key] ELSE default

InitFlow ==
    /\ words = <<>>
    /\ board_size = 0
    /\ card_count = 0
    /\ word_mode = ""
    /\ custom_words = <<>>
    /\ valid = FALSE
    /\ msg = [text |-> ""]
    /\ pc = "idle"
    /\ InitIdleGen
    /\ InitIdleFlow

NoCall == call' = [made |-> FALSE]

\* POST /bingo/upload with a readable file: the extracted words become the
\* suggested and the selected words
bingo_upload ==
    /\ pc = "idle"
    /\ \E n \in FlowLens :
        data' = [data EXCEPT !.keys = @ \cup {"suggested_words", "selected_words"},
                             !.selected_words = Pool(n)]
    /\ NoCall
    /\ response' = "redirect:bingo_words"
    /\ UNCHANGED <<argVars, valVars, genVars, pc>>

\* POST /bingo/manual-words with a word list
bingo_manual_words ==
    /\ pc = "idle"
    /\ \E n \in {4} \cup FlowLens :
        IF n < 5
        THEN /\ response' = "redirect:bingo_upload"
             /\ UNCHANGED data
        ELSE /\ data' = [data EXCEPT
                            !.keys = @ \cup {"suggested_words", "selected_words"},
                            !.selected_words = Pool(n)]
             /\ response' = "redirect:bingo_words"
    /\ NoCall
    /\ UNCHANGED <<argVars, valVars, genVars, pc>>

\* POST /bingo/words
bingo_words ==
    /\ pc = "idle"
    /\ IF "suggested_words" \notin data.keys
       THEN /\ response' = "redirect:bingo_upload"
            /\ UNCHANGED data
       ELSE \E n \in FlowLens : \E cw \in FlowCustom(n) :
            IF n < 16
            THEN /\ response' = "render:words"
                 /\ UNCHANGED data
            ELSE /\ data' = [data EXCEPT
                                !.keys = @ \cup {"selected_words", "custom_words"},
                                !.selected_words = Pool(n),
                                !.custom_words = cw]
                 /\ response' = "redirect:bingo_configure"
    /\ NoCall
    /\ UNCHANGED <<argVars, valVars, genVars, pc>>

\* POST /bingo/configure
bingo_configure ==
    /\ pc = "idle"
    /\ IF "selected_words" \notin data.keys
       THEN /\ response' = "redirect:bingo_upload"
            /\ UNCHANGED <<data, valVars>>
       ELSE \E form_size \in {3, 4, 5} : \E form_count \in {0, 2, 51} :
            \E form_mode \in Modes :
            LET size  == clamp_board_size(form_size)
                count == clamp_card_count(form_count)
                ws    == Get("selected_words", <<>>)
                r     == validate_word_count(ws, size, count, form_mode)
            IN  /\ valid' = r.ok
                /\ msg' = r.msg
                /\ IF ~r.ok
                   THEN /\ response' = "render:configure"
                        /\ UNCHANGED data
                   ELSE /\ data' = [data EXCEPT
                                !.keys = @ \cup {"board_size", "card_count", "word_mode"},
                                !.board_size = size,
                                !.card_count = count,
                                !.word_mode = form_mode]
                        /\ response' = "redirect:bingo_customize"
    /\ NoCall
    /\ UNCHANGED <<argVars, genVars, pc>>

\* POST /bingo/customize
bingo_customize ==
    /\ pc = "idle"
    /\ IF "board_size" \notin data.keys
       THEN /\ response' = "redirect:bingo_upload"
            /\ UNCHANGED data
       ELSE /\ data' = [data EXCEPT !.keys = @ \cup {"title"}]
            /\ response' = "redirect:bingo_preview"
    /\ NoCall
    /\ UNCHANGED <<argVars, valVars, genVars, pc>>

\* the call of generate_boards by bingo_preview (count 1) and bingo_generate
CallGenerator(count, ok_response) ==
    LET ws     == data.selected_words
        size   == data.board_size
        mode   == Get("word_mode", "same_shuffled")
        custom == Get("custom_words", <<>>)
    IN  /\ call' = [made |-> TRUE, words |-> ws, board_size |-> size,
                    card_count |-> count, word_mode |-> mode,
                    custom_words |-> custom]
        /\ response' = IF generate_boards_raises(ws, size, count, mode, custom)
                       THEN "error" ELSE ok_response

\* GET /bingo/preview
bingo_preview ==
    /\ pc = "idle"
    /\ IF "selected_words" \notin data.keys \/ "board_size" \notin data.keys
       THEN /\ response' = "redirect:bingo_upload"
            /\ NoCall
       ELSE CallGenerator(1, "render:preview")
    /\ UNCHANGED <<argVars, valVars, genVars, pc, data>>

\* GET /bingo/generate
bingo_generate ==
    /\ pc = "idle"
    /\ IF "selected_words" \notin data.keys \/ "board_size" \notin data.keys
       THEN /\ response' = "redirect:bingo_upload"
            /\ NoCall
       ELSE CallGenerator(Get("card_count", 10), "pdf")
    /\ UNCHANGED <<argVars, valVars, genVars, pc, data>>

NextFlow ==
    \/ bingo_upload
    \/ bingo_manual_words
    \/ bingo_words
    \/ bingo_configure
    \/ bingo_customize
    \/ bingo_preview
    \/ bingo_generate

SpecFlow == InitFlow /\ [][NextFlow]_vars

----------------------------------------------------------------------------
(* Properties of validate_word_count, checked under SpecVal *)

NEED_TEXT == "Need at least {cells} words for a {n}x{n} board, but only have {len}."

\* C1: validate_word_count returns (True, "OK") exactly when the pool has at
\* least cells words and, in "different_per_board" mode, at least cells + 5,
\* where cells is 16 for size 4 and 24 for size 5; for size 5 in
\* "same_shuffled" mode 24 words are accepted and 23 words are rejected with
\* a message that states 24, the 5x5 grid and the 23 words supplied.
C1_ValidatorThreshold ==
    pc = "validated" =>
        LET need == IF board_size = 5 THEN 24 ELSE 16
            accepted == /\ Len(words) >= need
                        /\ (word_mode = "different_per_board"
                                => Len(words) >= need + 5)
        IN  /\ valid <=> accepted
            /\ (msg = [text |-> "OK"]) <=> accepted
            /\ (board_size = 5 /\ word_mode = "same_shuffled" /\ Len(words) = 24)
                    => valid
            /\ (board_size = 5 /\ word_mode = "same_shuffled" /\ Len(words) = 23)
                    => /\ ~valid
                       /\ msg = [text |-> NEED_TEXT, cells |-> 24, rows |-> 5,
                                 cols |-> 5, have |-> 23]

C1_Witness ==
    /\ pc = "validated"
    /\ board_size = 5
    /\ word_mode = "same_shuffled"
    /\ Len(words) = 23
    /\ ~valid

RECOMMEND_TEXT == "For boards with different words, recommend at least {recommended} words. You have {len}. Add more words or switch to 'Same words' mode."

\* the request falls short of the advisory threshold only
AdvisoryShortfall ==
    LET need == IF board_size = 5 THEN 24 ELSE 16
    IN  /\ word_mode = "different_per_board"
        /\ need <= Len(words)
        /\ Len(words) < need + 5

\* C12: in "different_per_board" mode with cells <= len(pool) < cells + 5,
\* validate_word_count returns ok=False with the message that recommends
\* min(cells*2, cells + card_count*3) words and a switch to 'Same words'
\* mode; for 25 words, size 5 and card_count 10 the recommended number is
\* between 24 and 54.
C12_AdvisoryMessage ==
    (pc = "validated" /\ AdvisoryShortfall) =>
        LET need == IF board_size = 5 THEN 24 ELSE 16
            a    == need * 2
            b    == need + card_count * 3
        IN  /\ ~valid
            /\ msg = [text |-> RECOMMEND_TEXT,
                      recommended |-> IF a < b THEN a ELSE b,
                      have |-> Len(words)]
            /\ (Len(words) = 25 /\ board_size = 5 /\ card_count = 10)
                    => msg.recommended >= 24 /\ msg.recommended <= 54

C12_Witness ==
    /\ pc = "validated"
    /\ Len(words) = 25
    /\ board_size = 5
    /\ card_count = 10
    /\ word_mode = "different_per_board"
    /\ ~valid
    /\ msg.text = RECOMMEND_TEXT
    /\ msg.recommended = 48

\* C19: whenever validate_word_count fails with the advisory message, the
\* recommended number of words is greater than the number supplied, and a
\* pool of exactly the recommended number passes validation for the same
\* size, card_count and mode.
C19_RecommendationActionable ==
    (pc = "validated" /\ ~valid /\ msg.text = RECOMMEND_TEXT) =>
        /\ msg.recommended > Len(words)
        /\ validate_word_count(Pool(msg.recommended), board_size, card_count,
                               word_mode).ok

----------------------------------------------------------------------------
(* Properties of generate_boards, checked under SpecGen *)

Positions(size) == (1..size) \X (1..size)

\* the number of cells of a card that hold w
Occurrences(card, w) ==
    Cardinality({p \in Positions(Len(card)) : card[p[1]][p[2]] = w})

\* the words of a card
CardWords(card) ==
    {card[p[1]][p[2]] : p \in Positions(Len(card))} \ {FREE}

Returned == pc = "done"

\* C2: every card of a returned batch has board_size rows of board_size
\* cells; for board_size 5 the cell in row 2, column 2 (counted from 0) is
\* FREE and no other cell is; for board_size 4 no cell is FREE.
C2_GridShape ==
    Returned =>
        \A i \in 1..Len(boards) :
            LET card == boards[i]
            IN  /\ Len(card) = board_size
                /\ \A row \in 1..Len(card) : Len(card[row]) = board_size
                /\ board_size = 5 =>
                    /\ card[2 + 1][2 + 1] = FREE
                    /\ Occurrences(card, FREE) = 1
                /\ board_size = 4 => Occurrences(card, FREE) = 0

C2_Witness ==
    /\ Returned
    /\ board_size = 5
    /\ Len(boards) = 2
    /\ boards[1][3][3] = FREE

\* C3: with a pool of distinct words and pinned words that are all in the
\* pool, every cell of every returned card other than the free centre holds
\* a word of the pool, and no word is in two cells of one card.
C3_PoolWordsNoRepeat ==
    (Returned /\ Range(custom_words) \subseteq Range(words)) =>
        \A i \in 1..Len(boards) :
            LET card == boards[i]
            IN  \A p \in Positions(board_size) :
                    \/ board_size = 5 /\ p = <<3, 3>>
                    \/ /\ card[p[1]][p[2]] \in Range(words)
                       /\ Occurrences(card, card[p[1]][p[2]]) = 1

C3_Witness ==
    /\ Returned
    /\ custom_words # <<>>
    /\ Range(custom_words) \subseteq Range(words)
    /\ board_size = 4
    /\ Len(boards) = 2

\* C4: with a non-empty list of pinned words, all in the pool and no more
\* than cells_needed of them, every pinned word is in exactly one cell of
\* every returned card, in both modes.
C4_PinnedOnEveryCard ==
    (/\ Returned
     /\ custom_words # <<>>
     /\ Range(custom_words) \subseteq Range(words)
     /\ Len(custom_words) <= cells_needed(board_size)) =>
        \A i \in 1..Len(boards) : \A w \in Range(custom_words) :
            Occurrences(boards[i], w) = 1

C4_Witness ==
    /\ Returned
    /\ custom_words # <<>>
    /\ Range(custom_words) \subseteq Range(words)
    /\ word_mode = "different_per_board"
    /\ Len(words) > cells_needed(board_size) + 1
    /\ Len(boards) = 2

\* C5: a returned batch holds exactly card_count cards, also when a card
\* used up its 100 attempts.
C5_BatchSize ==
    Returned => Len(boards) = card_count

\* two equal cards with the duplicate check active: the second one was
\* appended after 100 colliding draws
C5_Witness ==
    /\ Returned
    /\ card_count = 2
    /\ ~skip_duplicate_check
    /\ Len(boards) = 2
    /\ boards[1] = boards[2]

\* C6: when validate_word_count accepts the request and the pinned words of
\* the pool are at most cells_needed, fill_needed never exceeds the length of
\* remaining_pool (nor is negative), no exception ends the call, and the
\* loop can always go on until the batch is returned.
C6_NoSamplingError ==
    (/\ validate_word_count(words, board_size, card_count, word_mode).ok
     /\ Len(guaranteed) <= cells_needed(board_size)) =>
        /\ 0 <= fill_needed
        /\ fill_needed <= Len(remaining_pool)
        /\ sample_size = fill_needed
        /\ pc # "error"
        /\ pc = "loop" => attempts < MAX_ATTEMPTS /\ Len(boards) < card_count

C6_Witness ==
    /\ validate_word_count(words, board_size, card_count, word_mode).ok
    /\ word_mode = "different_per_board"
    /\ guaranteed # <<>>
    /\ Returned
    /\ Len(boards) = 2

\* C8: in "same_shuffled" mode with a pool of at least cells_needed words,
\* all cards of a returned batch hold the same set of words (stated for the
\* grid sizes 4 and 5 of the workflow).
C8_SameWordsOnEveryCard ==
    (/\ Returned
     /\ board_size \in {4, 5}
     /\ word_mode = "same_shuffled"
     /\ Len(words) >= cells_needed(board_size)) =>
        \A i, j \in 1..Len(boards) : CardWords(boards[i]) = CardWords(boards[j])

\* a step of the while loop that drew a candidate (left in card_words')
\* while the duplicate check is active
CheckedDraw ==
    /\ pc = "loop"
    /\ ~sample_raises(remaining_pool, sample_size)
    /\ ~(card_count > _factorial_limit(cells_needed(board_size)))

\* C9 as stated: while the duplicate check is active, a candidate with the
\* word set of an accepted card, in other cell positions, is treated as a
\* duplicate: it is not accepted (its key is not added to seen, no card is
\* appended before the attempts run out).
C9_KeyIgnoresOrder ==
    [][(/\ CheckedDraw
        /\ \E k \in seen : Range(k) = Range(card_words') /\ k # card_words')
            => /\ seen' = seen
               /\ attempts + 1 < MAX_ATTEMPTS =>
                    attempts' = attempts + 1 /\ boards' = boards]_vars

\* C9 amended: the key is the tuple of the card's words in their shuffled
\* order.  While the duplicate check is active a candidate is treated as a
\* duplicate, and retried, exactly when an accepted card has the same words
\* in the same positions; any other candidate, also one with the word set of
\* an accepted card in other positions, is accepted and its tuple added to
\* seen.
C9_KeyIsOrdered ==
    [][CheckedDraw =>
        IF card_words' \in seen
        THEN /\ seen' = seen
             /\ attempts + 1 < MAX_ATTEMPTS =>
                    attempts' = attempts + 1 /\ boards' = boards
        ELSE /\ seen' = seen \cup {card_words'}
             /\ ~build_grid_raises(card_words', board_size) =>
                    boards' = Append(boards, _build_grid(card_words', board_size))]_vars

\* two cards with the same words in different positions, both accepted
C9_Witness ==
    /\ Returned
    /\ board_size = 4
    /\ Len(boards) = 2
    /\ ~skip_duplicate_check
    /\ CardWords(boards[1]) = CardWords(boards[2])
    /\ boards[1] # boards[2]
    /\ Cardinality(seen) = 2

\* C10: when card_count is greater than _factorial_limit(cells_needed), no
\* draw is ever retried: every draw of a request within the generator's
\* precondition appends a card, no exception ends the call, and the batch
\* returned holds exactly card_count cards.
C10_OverflowBypass ==
    /\ [](card_count > _factorial_limit(cells_needed(board_size)) =>
            /\ attempts = 0
            /\ Returned => Len(boards) = card_count
            /\ ~generate_boards_raises(words, board_size, card_count,
                                       word_mode, custom_words)
                    => pc # "error")
    /\ [][(/\ card_count > _factorial_limit(cells_needed(board_size))
           /\ pc = "loop"
           /\ ~generate_boards_raises(words, board_size, card_count,
                                      word_mode, custom_words))
            => /\ Len(boards') = Len(boards) + 1
               /\ boards'[Len(boards')] = _build_grid(card_words', board_size)]_vars

\* a batch with a repeated card, accepted without a retry
C10_Witness ==
    /\ Returned
    /\ card_count > _factorial_limit(cells_needed(board_size))
    /\ Len(boards) = card_count
    /\ card_count = 2
    /\ boards[1] = boards[2]
    /\ Cardinality(seen) = 1

\* an upper bound of the number of samples drawn so far in the call
DrawsBound == MAX_ATTEMPTS * Len(boards) + attempts

\* C11: the retry loop is bounded.  Every pass of the while loop either
\* appends a card or counts one more attempt of at most 99, so a card takes
\* at most 100 samples and a call at most 100 * card_count; when the 100th
\* sample of a card collides as well, that candidate is laid out and
\* appended.  The call ends: every step raises DrawsBound, which never
\* exceeds 100 * card_count, and while the call is in the loop a further
\* pass is possible.
C11_RetryLoopBounded ==
    /\ [](/\ attempts < MAX_ATTEMPTS
          /\ DrawsBound <= MAX_ATTEMPTS * card_count
          /\ pc = "loop" => Len(boards) < card_count
          /\ Returned => DrawsBound = MAX_ATTEMPTS * card_count)
    /\ [][pc = "loop" =>
            /\ \/ pc' = "error"
               \/ /\ DrawsBound' > DrawsBound
                  /\ DrawsBound' <= MAX_ATTEMPTS * (Len(boards) + 1)
            /\ (/\ attempts = MAX_ATTEMPTS - 1
                /\ card_words' \in seen
                /\ ~(card_count > _factorial_limit(cells_needed(board_size))))
                => /\ seen' = seen
                   /\ boards' = Append(boards, _build_grid(card_words', board_size))]_vars

\* a batch whose second card was appended after 100 colliding samples
C11_Witness ==
    /\ Returned
    /\ board_size = 5
    /\ card_count = 2
    /\ Len(boards) = 2
    /\ boards[1] = boards[2]
    /\ Cardinality(seen) = 1
    /\ ~(card_count > _factorial_limit(cells_needed(board_size)))

\* the pinned words that belong to the pool, counted from the request
PinnedInPool == Len(Filter(custom_words, Range(words)))

\* more pinned pool words than the card has word cells
OverPinned == PinnedInPool > cells_needed(board_size)

\* C14: when more pinned words belong to the pool than the card has word
\* cells, generate_boards raises on the first card in either mode: the call
\* never returns, no card is ever laid out, and the only step of the call is
\* the one that ends it with an error.
C14_OverPinnedFails ==
    /\ [](OverPinned => pc \in {"loop", "error"} /\ boards = <<>> /\ seen = {})
    /\ [][OverPinned /\ pc = "loop" => pc' = "error"]_vars
    /\ [](OverPinned /\ pc = "loop" => ENABLED SampleError)

\* an over-pinned request in distinct-per-card mode that ended with an error
C14_Witness ==
    /\ OverPinned
    /\ word_mode = "different_per_board"
    /\ board_size = 5
    /\ pc = "error"

\* the pool words left after the pinned ones are fewer than the cells the
\* pinned words leave open
PoolRestShort ==
    /\ PinnedInPool <= cells_needed(board_size)
    /\ Cardinality(Range(words) \ Range(custom_words))
            < cells_needed(board_size) - PinnedInPool

\* C15: when the pool without the pinned words is smaller than the number
\* of cells left to fill, generate_boards raises on the first card in
\* either mode and returns nothing; and whenever the call ends with an
\* error nothing is returned, while every card of a returned batch has a
\* word in each of its cells_needed word cells and the batch is complete.
C15_ShortPoolFails ==
    /\ [](PoolRestShort => pc \in {"loop", "error"} /\ boards = <<>>)
    /\ [][PoolRestShort /\ pc = "loop" => pc' = "error"]_vars
    /\ [](PoolRestShort /\ pc = "loop" => ENABLED (SampleError \/ Draw))
    /\ [](pc = "error" => ~Returned)
    /\ [](Returned =>
            /\ Len(boards) = card_count
            /\ \A i \in 1..Len(boards) :
                 Cardinality({p \in Positions(board_size) : boards[i][p[1]][p[2]] # FREE})
                     = cells_needed(board_size))

\* a request in distinct-per-card mode, one word short of a 5x5 card, that
\* ended with an error raised by the grid layout
C15_Witness ==
    /\ PoolRestShort
    /\ word_mode = "different_per_board"
    /\ board_size = 5
    /\ Len(card_words) = cells_needed(board_size) - 1
    /\ pc = "error"

\* the step appends a card
Accepts == pc = "loop" /\ Len(boards') = Len(boards) + 1

\* C16: while the duplicate check is active, a card that is appended
\* otherwise than on the 100th colliding sample differs from every card
\* appended before it; so two cards of a batch are the same grid only if
\* card_count > _factorial_limit(cells_needed) or the later one was
\* appended on the 100th colliding sample.
C16_BestEffortUnique ==
    [][(/\ Accepts
        /\ ~(card_count > _factorial_limit(cells_needed(board_size)))
        /\ ~(attempts = MAX_ATTEMPTS - 1 /\ card_words' \in seen))
        => /\ card_words' \notin seen
           /\ \A i \in 1..Len(boards) : boards[i] # boards'[Len(boards')]]_vars

\* a returned batch of two different 5x5 cards, the duplicate check active
C16_Witness ==
    /\ Returned
    /\ board_size = 5
    /\ card_count = 2
    /\ Len(boards) = 2
    /\ boards[1] # boards[2]
    /\ Cardinality(seen) = 2
    /\ ~(card_count > _factorial_limit(cells_needed(board_size)))

----------------------------------------------------------------------------
(* Properties of the placement of pinned words, checked under SpecPlace *)

\* the request can be laid out: the pinned pool words fit the card and the
\* rest of the pool fills it
Feasible ==
    /\ PinnedInPool <= cells_needed(board_size)
    /\ Cardinality(Range(words) \ Range(custom_words))
            >= cells_needed(board_size) - PinnedInPool

\* the cells of a card that are not the FREE centre
WordCells == {p \in Positions(board_size) : ~is_free_cell(board_size, p[1], p[2])}

\* C17: before the card of a feasible request is drawn, for every pinned
\* pool word and every cell other than the FREE centre there is an outcome
\* of the draw that returns the card with that word in that cell; and in
\* every returned card every pinned pool word occupies some cell.
C17_PinnedAnyCell ==
    /\ (pc = "loop" /\ Feasible) =>
          \A w \in Range(Filter(custom_words, Range(words))) :
            \A p \in WordCells :
              ENABLED (/\ DrawAnyRotation
                       /\ pc' = "done"
                       /\ boards'[1][p[1]][p[2]] = w)
    /\ Returned =>
          \A w \in Range(Filter(custom_words, Range(words))) :
            \E p \in WordCells : boards[1][p[1]][p[2]] = w

\* a returned 5x5 card whose pinned word sits in the last cell, not the
\* cell it had in the list before the shuffle
C17_Witness ==
    /\ Returned
    /\ board_size = 5
    /\ Len(custom_words) = 1
    /\ boards[1][5][5] = custom_words[1]
    /\ boards[1][1][1] # custom_words[1]

----------------------------------------------------------------------------
(* Properties of the workflow, checked under SpecFlow *)

\* C7: every call of generate_boards is made with a pool, board size and
\* mode that validate_word_count accepts at the time of the call.
C7_GeneratorOnlyAfterValidator ==
    call.made =>
        validate_word_count(call.words, call.board_size, call.card_count,
                            call.word_mode).ok

\* the stored configuration: which of the three keys are present, and their
\* values
StoredConfig ==
    <<data.keys \cap {"board_size", "card_count", "word_mode"},
      data.board_size, data.card_count, data.word_mode>>

\* C13 as stated: an advisory shortfall does not block.  A configure POST
\* whose validation gave the advisory message is accepted: the
\* configuration is stored and the request goes on to the customize step.
C13_AdvisoryNonBlocking ==
    (/\ response \in {"render:configure", "redirect:bingo_customize"}
     /\ msg.text = RECOMMEND_TEXT) =>
        /\ response = "redirect:bingo_customize"
        /\ "board_size" \in data.keys
        /\ data.word_mode = "different_per_board"

\* C13 amended: an advisory shortfall blocks like an infeasible request.  A
\* configure POST whose validation gave the advisory message has valid =
\* False, re-renders the configure form with the message, stores nothing
\* and calls no generator; only a configure POST whose validation answered
\* "OK" goes on to the customize step.  Generation is then possible only
\* with a configuration stored by an earlier successful configure POST.
C13_AdvisoryBlocks ==
    /\ []((/\ response \in {"render:configure", "redirect:bingo_customize"}
           /\ msg.text = RECOMMEND_TEXT)
            => ~valid /\ response = "render:configure" /\ ~call.made)
    /\ [](response = "redirect:bingo_customize" => valid /\ msg.text = "OK")
    /\ [][(response' = "render:configure" /\ msg'.text = RECOMMEND_TEXT)
            => data' = data]_vars
    /\ [](call.made => "board_size" \in data.keys)

\* an advisory shortfall on a session with no stored configuration
C13_Witness ==
    /\ response = "render:configure"
    /\ msg.text = RECOMMEND_TEXT
    /\ ~valid
    /\ Len(data.selected_words) = 24
    /\ "board_size" \notin data.keys

\* C18: a configure POST whose validation fails leaves the stored
\* board_size, card_count and word_mode as they were (absent, or the values
\* of the last successful configure POST); the three keys are written only
\* by a configure POST whose validation succeeded, and then with board_size
\* 4 or 5 and card_count in 1..50.
C18_ConfigureFrame ==
    /\ [][response' = "render:configure" => StoredConfig' = StoredConfig]_vars
    /\ [][StoredConfig' # StoredConfig =>
            /\ response' = "redirect:bingo_customize"
            /\ valid'
            /\ validate_word_count(data.selected_words, data'.board_size,
                                   data'.card_count, data'.word_mode).ok
            /\ data'.selected_words = data.selected_words]_vars
    /\ []("board_size" \in data.keys =>
            /\ {"board_size", "card_count", "word_mode"} \subseteq data.keys
            /\ data.board_size \in {4, 5}
            /\ data.card_count \in 1..50
            /\ data.word_mode \in Modes)
    /\ []("board_size" \notin data.keys =>
            /\ data.keys \cap {"card_count", "word_mode"} = {}
            /\ data.board_size = 0 /\ data.card_count = 0 /\ data.word_mode = "")

\* a failed configure POST on a session that holds the 50 cards of an
\* earlier successful one
C18_Witness ==
    /\ response = "render:configure"
    /\ ~valid
    /\ "board_size" \in data.keys
    /\ data.board_size = 4
    /\ data.card_count = 50
    /\ Len(data.selected_words) = 16

====
